---- MODULE Spec2Model ----
(***************************************************************************)
(* Extraction-consensus-and-learning pipeline of Dijitallesme_Asistani.    *)
(*                                                                         *)
(* Six specifications share this module:                                   *)
(*   Spec         one document run (analyze or batch path) from its OCR    *)
(*                result on: OCR quality, vision fallback, primary         *)
(*                mapping, specialist routing, the two merges, the final   *)
(*                field-keyed result and the learning refresh;             *)
(*   SpecMapper   AIFieldMapper.map_fields as a function of its inputs;    *)
(*   SpecLearning TemplateLearningService over the persistence layer, with *)
(*                two sessions whose statements interleave;                *)
(*   SpecFn       functions of the core modules called on their own;       *)
(*   SpecHints    the learning service of one session and the              *)
(*                configuration step of a run that starts after it;        *)
(*   SpecBatch    batch jobs: start requests, their background tasks,      *)
(*                status polls and the deletion of the template.           *)
(*                                                                         *)
(* Confidences are integers in hundredths (0.55 is 55), so that the        *)
(* blending weights 0.6/0.4/0.5 stay exact on the inputs used.             *)
(***************************************************************************)
EXTENDS Integers, Sequences, FiniteSets, TLC

VARIABLES
    \* ---- one document run (routes/batch.py, routes/template.py)
    path,               \* "analyze" | "batch"
    template,           \* field name -> field definition
    apiKey,             \* settings.OPENAI_API_KEY is set
    ocr,                \* the OCR result record
    pc,                 \* position of the run
    docStatus,          \* Document.status
    visionResponse,     \* None or the result of extract_with_vision
    mappingResult,      \* None or the result of map_fields
    augmented,          \* Primary(+Vision) mapping
    candidates,         \* fields routed to the specialist
    specialistMapping,  \* the specialist's field_mappings
    merged,             \* merge_field_mappings(augmented, specialist)
    result,             \* the final field-keyed result
    refresh,            \* the learning refresh a batch run schedules
    \* ---- map_fields called directly
    mIn,                \* the arguments and backend outcome of one call
    mOut,               \* None or the returned result
    \* ---- a function of the core modules called directly
    fnIn,               \* the function called and its arguments
    fnOut,              \* None or the returned value
    \* ---- learning service and persistence layer
    corrections,        \* committed correction_feedback rows, in id order
    hints,              \* committed template_field_hints rows, in id order
    fieldMeta,          \* template_fields: auto_learned_type / last_learned_at
    sess,               \* per session: the running call and its locals
    \* ---- the configuration step of an extraction run
    runConfig,          \* None or what the run loaded and handed on
    \* ---- batch jobs over the documents of one template (routes/batch.py)
    batch               \* None or the tables and the queued background tasks

runVars == <<path, template, apiKey, ocr, pc, docStatus, visionResponse,
             mappingResult, augmented, candidates, specialistMapping, merged,
             result, refresh>>
mapperVars == <<mIn, mOut>>
learnVars == <<corrections, hints, fieldMeta, sess>>
fnVars == <<fnIn, fnOut>>
cfgVars == <<runConfig, batch>>
vars == <<runVars, mapperVars, learnVars, fnVars, cfgVars>>

NULL == "null"
\* an optional record that is missing (None / key not present)
None == [none |-> TRUE]
Absent == [absent |-> TRUE]

Min(a, b) == IF a < b THEN a ELSE b
Max(a, b) == IF a > b THEN a ELSE b
Range(s) == {s[i] : i \in 1..Len(s)}

RECURSIVE SumSeq(_)
SumSeq(s) == IF s = <<>> THEN 0 ELSE Head(s) + SumSeq(Tail(s))

(***************************************************************************)
(* Data model                                                              *)
(***************************************************************************)
FieldNames == {"f1", "f2"}

\* A Mapping entry; a missing or empty "alternates" key is the empty sequence
\* (the code reads it with `get("alternates") or []` / setdefault).
Entry(value, confidence, source, alternates) ==
    [value |-> value, confidence |-> confidence, source |-> source,
     alternates |-> alternates]

Alt(value, confidence, source) ==
    [value |-> value, confidence |-> confidence, source |-> source]

EmptyMapping == [f \in {} |-> Entry(NULL, 0, "", <<>>)]

\* handwriting_threshold is <<>> when unset, <<t>> when set
FieldDef(required, regex_hint, enabled, llm_tier, hw, threshold) ==
    [required |-> required, regex_hint |-> regex_hint, enabled |-> enabled,
     llm_tier |-> llm_tier, auto_detected_handwriting |-> hw,
     handwriting_threshold |-> threshold]

\* Template.target_fields: the templates the runs are checked on.
Templates ==
    { [f \in FieldNames |->
         IF f = "f1" THEN FieldDef(TRUE, NULL, TRUE, "standard", FALSE, <<>>)
                     ELSE FieldDef(FALSE, NULL, TRUE, "standard", FALSE, <<>>)],
      [f \in FieldNames |->
         IF f = "f1" THEN FieldDef(FALSE, "digits", TRUE, "handwriting", FALSE, <<>>)
                     ELSE FieldDef(FALSE, NULL, FALSE, "standard", TRUE, <<>>)],
      [f \in FieldNames |->
         IF f = "f1" THEN FieldDef(TRUE, "digits", TRUE, "standard", FALSE, <<70>>)
                     ELSE FieldDef(TRUE, NULL, TRUE, "standard", FALSE, <<>>)] }

\* re.search(regex_hint, value_str) for the one validation pattern used, \d+
RegexSearch(pattern, value) ==
    IF pattern = "digits" THEN value \in {"12", "12 ab"} ELSE TRUE

\* re.findall(r"[0-9A-Za-z...]+", value): the value's tokens
Tokens(value) ==
    IF value = "12 ab" THEN <<"12", "ab">> ELSE <<value>>

OcrRecord(text, wc, avg, err, scores) ==
    [text |-> text, word_count |-> wc, average_confidence |-> avg,
     error |-> err, confidence_scores |-> scores]

NoScores == [t \in {} |-> 0]

\* OCR results a run is checked on: good, low confidence, blank, text layer
OcrResults ==
    { OcrRecord("text", 10, 90, FALSE, [t \in {"12"} |-> 80]),
      OcrRecord("text", 10, 30, FALSE, [t \in {"12"} |-> 40]),
      OcrRecord("", 0, 0, FALSE, NoScores),
      OcrRecord("text", 10, 100, FALSE, NoScores) }

(***************************************************************************)
(* OCRQualityAnalyzer (core/smart_vision_fallback.py)                      *)
(***************************************************************************)
MinAverageConfidence == 55
MinWordCount == 5
AllowEmptyText == FALSE

\* len(text.split()) on the texts of the model
SplitCount(text) ==
    IF text = "" THEN 0
    ELSE IF text = "one two" THEN 2
    ELSE IF text = "a b c d e f" THEN 6
    ELSE 1

\* OCRQualityAnalyzer.evaluate: the reasons of the report
QualityReasons(o, allow_empty_text) ==
    LET text == o.text
        word_count == IF o.word_count = 0 /\ text # "" THEN SplitCount(text)
                      ELSE o.word_count
        reasons ==
            (IF o.error THEN {"ocr_error"} ELSE {})
            \cup (IF text = "" THEN {"empty_text"}
                  ELSE IF word_count < MinWordCount THEN {"low_word_count"}
                  ELSE {})
            \cup (IF o.average_confidence < MinAverageConfidence
                  THEN {"low_confidence"} ELSE {})
    IN  IF text # "" /\ allow_empty_text THEN reasons \ {"empty_text"}
        ELSE reasons

ShouldFallback(o) == QualityReasons(o, AllowEmptyText) # {}

(***************************************************************************)
(* VisionFallback answer and the Vision-into-Primary merge                 *)
(* (core/smart_vision_fallback.py)                                         *)
(***************************************************************************)
\* _normalize_field_mapping: confidence is float(confidence), never clamped
NormalizeFieldMapping(answer) ==
    [f \in {g \in DOMAIN answer : answer[g] # Absent} |->
        Entry(answer[f].value, answer[f].confidence, "vision",
              answer[f].alternates)]

\* _build_alternates
BuildAlternates(entry) ==
    [i \in 1..Len(entry.alternates) |->
        Alt(entry.alternates[i].value, entry.alternates[i].confidence,
            entry.alternates[i].source)]

\* merge_ocr_and_vision_results, one field present on both sides
MergeVisionField(existing, vision_entry) ==
    IF vision_entry.confidence > existing.confidence
    THEN LET alternates == BuildAlternates(existing) IN
         [vision_entry EXCEPT !.alternates =
             IF alternates # <<>>
             THEN @ \o alternates
             ELSE Append(@, Alt(existing.value, existing.confidence,
                                existing.source))]
    ELSE [existing EXCEPT !.alternates =
             Append(@ \o BuildAlternates(vision_entry),
                    Alt(vision_entry.value, vision_entry.confidence,
                        vision_entry.source))]

\* merge_ocr_and_vision_results
MergeOcrAndVisionResults(ocr_mappings, vision_mappings) ==
    IF DOMAIN vision_mappings = {} THEN ocr_mappings
    ELSE [f \in DOMAIN ocr_mappings \cup DOMAIN vision_mappings |->
            IF f \notin DOMAIN vision_mappings THEN ocr_mappings[f]
            ELSE IF f \notin DOMAIN ocr_mappings THEN vision_mappings[f]
            ELSE MergeVisionField(ocr_mappings[f], vision_mappings[f])]

(***************************************************************************)
(* Specialist routing and the Specialist merge                             *)
(* (core/handwriting_interpreter.py)                                       *)
(***************************************************************************)
LowConfidenceFloor == 55
AllowedTiers == {"handwriting", "guided"}

\* a selection that looks at the confidence only
CandidatesByConfidenceOnly(fields, tpl, primary_mapping) ==
    {f \in DOMAIN primary_mapping \cap fields :
        primary_mapping[f].confidence <
            (IF tpl[f].handwriting_threshold = <<>> THEN LowConfidenceFloor
             ELSE tpl[f].handwriting_threshold[1])}

\* determine_specialist_candidates over the given template fields
DetermineSpecialistCandidates(fields, tpl, primary_mapping) ==
    {f \in fields :
        tpl[f].llm_tier \in AllowedTiers \/ tpl[f].auto_detected_handwriting}
    \cup
    {f \in DOMAIN primary_mapping \cap fields :
        primary_mapping[f].confidence <
            (IF tpl[f].handwriting_threshold = <<>> THEN LowConfidenceFloor
             ELSE tpl[f].handwriting_threshold[1])}

\* HandwritingInterpreter._parse_openai_response: float(confidence or 0.0)
ParseSpecialistResponse(answer) ==
    [f \in {g \in DOMAIN answer : answer[g] # Absent} |->
        Entry(answer[f].value, answer[f].confidence, "llm-specialist", <<>>)]

\* merge_field_mappings, first loop: the base entry is rebuilt from value,
\* confidence, source (and evidence): its alternates are not copied
BaseEntry(payload) ==
    Entry(payload.value, payload.confidence, payload.source, <<>>)

\* a second loop in which the specialist entry always replaces the base
SpecialistAlwaysWins(existing, payload) ==
    Entry(payload.value, payload.confidence, payload.source,
          Append(existing.alternates,
                 Alt(existing.value, existing.confidence, existing.source)))

\* merge_field_mappings, second loop, field present in merged
MergeSpecialistField(existing, payload) ==
    IF payload.confidence >= existing.confidence
    THEN Entry(payload.value, payload.confidence, payload.source,
               Append(existing.alternates,
                      Alt(existing.value, existing.confidence, existing.source)))
    ELSE [existing EXCEPT !.alternates =
             Append(@, Alt(payload.value, payload.confidence, payload.source))]

\* merge_field_mappings
MergeFieldMappings(primary_mapping, specialist_mapping) ==
    LET base == [f \in DOMAIN primary_mapping |-> BaseEntry(primary_mapping[f])]
    IN  [f \in DOMAIN base \cup DOMAIN specialist_mapping |->
            IF f \notin DOMAIN specialist_mapping THEN base[f]
            ELSE IF f \notin DOMAIN base
                 THEN Entry(specialist_mapping[f].value,
                            specialist_mapping[f].confidence,
                            specialist_mapping[f].source, <<>>)
            ELSE MergeSpecialistField(base[f], specialist_mapping[f])]

(***************************************************************************)
(* PrimaryMapper (core/ai_field_mapper.py)                                 *)
(***************************************************************************)
\* _create_empty_mapping
CreateEmptyMapping(fields) ==
    [field_mappings |-> [f \in fields |-> Entry(NULL, 0, "Hata olustu", <<>>)],
     error |-> TRUE]

\* _evidence_confidence: source 'template'/'regex'/'hint' 0.9; 'auto_date' /
\* 'auto_number' max(0.6, 0.75); capped at 0.95
EvidenceConfidence(kind) ==
    Min(IF kind = "template" THEN 90 ELSE Max(60, 75), 95)

\* a parse failure answered with the empty mapping, Evidence ignored
EmptyMappingOnParseFailure(fields, evidence) ==
    CreateEmptyMapping(fields)

\* _build_partial_mapping_from_evidence; evidence[f] is None or
\* [kind, match] with match the first match of the field's evidence
BuildPartialMappingFromEvidence(fields, evidence) ==
    [field_mappings |->
        [f \in fields |->
            IF evidence[f] # None
            THEN Entry(evidence[f].match, EvidenceConfidence(evidence[f].kind),
                       evidence[f].kind, <<>>)
            ELSE Entry(NULL, 0, "Bulunamadi", <<>>)],
     error |-> TRUE]

\* _parse_ai_response, the JSON parsed: one entry per template field
ParseAiResponse(fields, answer) ==
    [field_mappings |->
        [f \in fields |->
            IF answer[f] # Absent
            THEN Entry(answer[f].value, answer[f].confidence, "llm-primary", <<>>)
            ELSE Entry(NULL, 0, "Bulunamadi", <<>>)],
     error |-> FALSE]

\* value_str: str(value).strip() unless value is None or ""
ValueStr(value) == IF value \in {NULL, "", " "} THEN "" ELSE value

\* _compute_value_ocr_confidence: avg(matched) * matched/total, clamped, as
\* <<c>>; <<>> (None) when no token of the value has an OCR confidence
ComputeValueOcrConfidence(value, word_conf_map) ==
    LET tokens == Tokens(value)
        hit == SelectSeq(tokens, LAMBDA t : t \in DOMAIN word_conf_map)
        confs == [i \in 1..Len(hit) |-> word_conf_map[hit[i]]]
    IN  IF hit = <<>> THEN <<>>
        ELSE << Max(0, Min(100, SumSeq(confs) \div Len(tokens))) >>

\* _merge_ocr_confidence, one field
CombinedConfidence(entry, fdef, word_conf_map) ==
    LET llm_conf == entry.confidence
        value_str == ValueStr(entry.value)
        ocr_conf == IF value_str # "" /\ DOMAIN word_conf_map # {}
                    THEN ComputeValueOcrConfidence(value_str, word_conf_map)
                    ELSE <<>>
        regex_ok == IF fdef.regex_hint # NULL /\ value_str # ""
                    THEN RegexSearch(fdef.regex_hint, value_str)
                    ELSE TRUE
        blended == IF ocr_conf # <<>>
                   THEN (6 * llm_conf + 4 * ocr_conf[1]) \div 10
                   ELSE llm_conf
        capped == IF ~regex_ok THEN Min(blended, llm_conf \div 2) ELSE blended
        forced == IF fdef.required /\ value_str = "" THEN 0 ELSE capped
    IN  Max(0, Min(100, forced))

\* _merge_ocr_confidence
MergeOcrConfidence(res, ocr_data, tpl) ==
    [res EXCEPT !.field_mappings =
        [f \in DOMAIN res.field_mappings |->
            [res.field_mappings[f] EXCEPT !.confidence =
                CombinedConfidence(res.field_mappings[f], tpl[f],
                                   ocr_data.confidence_scores)]]]

\* map_fields without its except handlers: a failed backend call escapes
MapFieldsUnguarded(fields, tpl, outcome, answer, evidence, ocr_data) ==
    IF outcome = "no_key" THEN CreateEmptyMapping(fields)
    ELSE IF outcome = "backend_error" THEN [raised |-> TRUE]
    ELSE LET parsed == IF outcome = "parse_failure"
                       THEN BuildPartialMappingFromEvidence(fields, evidence)
                       ELSE ParseAiResponse(fields, answer)
         IN  IF ocr_data # None /\ DOMAIN parsed.field_mappings # {}
             THEN MergeOcrConfidence(parsed, ocr_data, tpl)
             ELSE parsed

\* map_fields.  outcome: "no_key" (no credentials), "backend_error"
\* (transport/authentication failure or empty answer), "parse_failure"
\* (the answer is no JSON object), "parsed".  ocr_data is None or an OCR record.
MapFields(fields, tpl, outcome, answer, evidence, ocr_data) ==
    IF outcome \in {"no_key", "backend_error"} THEN CreateEmptyMapping(fields)
    ELSE LET parsed == IF outcome = "parse_failure"
                       THEN BuildPartialMappingFromEvidence(fields, evidence)
                       ELSE ParseAiResponse(fields, answer)
         IN  IF ocr_data # None /\ DOMAIN parsed.field_mappings # {}
             THEN MergeOcrConfidence(parsed, ocr_data, tpl)
             ELSE parsed

(***************************************************************************)
(* One document run: analyze_document (routes/template.py) and             *)
(* process_document_task (routes/batch.py)                                 *)
(***************************************************************************)
\* longest alternates list a vision answer carries
MaxVisionAlternates == 1

\* confidences a model answer may carry (the code accepts any number)
ConfInputs == {0, 50, 120}

Answer(value, confidence) ==
    [value |-> value, confidence |-> confidence]

VisionAnswer(value, confidence, alternates) ==
    [value |-> value, confidence |-> confidence, alternates |-> alternates]

\* what the primary model may answer for a field
PrimaryAnswers(f) ==
    IF f = "f1"
    THEN {Absent} \cup {Answer(v, c) : v \in {NULL, "12", "ab"}, c \in ConfInputs}
    ELSE {Absent, Answer("12", 50)}

\* evidence _pre_detect_fields may hold for a field: None, or the first match
\* of a template pattern or of a generic heuristic
EvidenceFor(f) ==
    IF f = "f1"
    THEN {None, [kind |-> "template", match |-> "12"],
          [kind |-> "auto_number", match |-> "12"]}
    ELSE {None, [kind |-> "template", match |-> "12"]}

VisionAlternates ==
    {[i \in 1..n |-> Alt("w", 30, "vision")] : n \in 0..MaxVisionAlternates}

\* what the vision model may answer for a field
VisionAnswers(f) ==
    IF f = "f1"
    THEN {Absent} \cup
         {VisionAnswer("v", c, a) : c \in ConfInputs, a \in VisionAlternates}
    ELSE {Absent, VisionAnswer("v", 50, <<>>)}

\* what the specialist model may answer for a field
SpecialistAnswers(f) ==
    IF f = "f1"
    THEN {Absent} \cup {Answer("s", c) : c \in ConfInputs}
    ELSE {Absent, Answer("s", 50)}

EnabledFields(tpl) == {f \in FieldNames : tpl[f].enabled}

\* the template fields a run hands to the stages: analyze_document filters on
\* `enabled`, process_document_task passes template.target_fields as is
StageFields(p, tpl) == IF p = "analyze" THEN EnabledFields(tpl) ELSE FieldNames

VisionMappings(vr) == IF vr = None THEN EmptyMapping ELSE vr.field_mappings

\* AIFieldMapper.calculate_field_status
CalculateFieldStatus(confidence) ==
    IF confidence >= 80 THEN "high"
    ELSE IF confidence >= 50 THEN "medium"
    ELSE "low"

\* process_document_task: merged_mappings completed over template.target_fields
FillUnmapped(m) ==
    [f \in DOMAIN m \cup FieldNames |->
        IF f \in DOMAIN m THEN m[f] ELSE Entry(NULL, 0, "unmapped", <<>>)]

\* process_document_task: ExtractedData.field_values / confidence_scores
ExtractedData(m) ==
    [f \in DOMAIN m |-> [value |-> m[f].value, confidence |-> m[f].confidence]]

\* a suggested_mapping that is not completed over the template
SuggestedMappingNoFill(m) ==
    [f \in DOMAIN m |->
        [value |-> m[f].value, confidence |-> m[f].confidence,
         status |-> CalculateFieldStatus(m[f].confidence),
         source |-> m[f].source, alternates |-> m[f].alternates]]

\* analyze_document: suggested_mapping, completed over all_template_fields
SuggestedMapping(m) ==
    [f \in DOMAIN m \cup FieldNames |->
        IF f \in DOMAIN m
        THEN [value |-> m[f].value, confidence |-> m[f].confidence,
              status |-> CalculateFieldStatus(m[f].confidence),
              source |-> m[f].source, alternates |-> m[f].alternates]
        ELSE [value |-> NULL, confidence |-> 0, status |-> "high",
              source |-> "", alternates |-> <<>>]]

NoResult == [f \in {} |-> [value |-> NULL, confidence |-> 0]]

RunInit ==
    /\ path \in {"analyze", "batch"}
    /\ template \in Templates
    /\ apiKey \in BOOLEAN
    /\ ocr \in OcrResults
    /\ pc = "start"
    /\ docStatus = "pending"
    /\ visionResponse = None
    /\ mappingResult = None
    /\ augmented = EmptyMapping
    /\ candidates = {}
    /\ specialistMapping = EmptyMapping
    /\ merged = EmptyMapping
    /\ result = NoResult
    /\ refresh = "none"

\* OCR done; the analyze path rejects a blank text or missing credentials
\* (HTTP 500, raised past the handler's status update), the batch path skips
\* the vision stage without credentials
StartRun ==
    /\ pc = "start"
    /\ docStatus' = IF path = "batch" /\ ocr.text = ""
                       /\ ~(apiKey /\ ShouldFallback(ocr))
                    THEN "failed" ELSE "processing"
    /\ pc' = IF path = "analyze"
             THEN IF ocr.text = "" \/ ~apiKey THEN "rejected"
                  ELSE IF ShouldFallback(ocr) THEN "vision" ELSE "primary"
             ELSE IF apiKey /\ ShouldFallback(ocr) THEN "vision"
                  ELSE IF ocr.text = "" THEN "failed" ELSE "primary"
    /\ UNCHANGED <<mapperVars, learnVars, fnVars, cfgVars>>
    /\ UNCHANGED <<path, template, apiKey, ocr, visionResponse, mappingResult,
                   augmented, candidates, specialistMapping, merged, result, refresh>>

\* extract_with_vision (the parsed answer is not restricted to the template
\* fields asked for), then the batch path's "OCR hatasi" check
VisionStage ==
    /\ pc = "vision"
    /\ \E failed \in BOOLEAN :
       \E answer \in [FieldNames -> UNION {VisionAnswers(f) : f \in FieldNames}] :
          /\ \A f \in DOMAIN answer : answer[f] \in VisionAnswers(f)
          /\ failed => \A f \in DOMAIN answer : answer[f] = Absent
          /\ visionResponse' =
                [field_mappings |-> NormalizeFieldMapping(answer),
                 error |-> failed]
    /\ LET noInput == ocr.text = "" /\ DOMAIN visionResponse'.field_mappings = {}
       IN  /\ pc' = IF noInput THEN "failed" ELSE "primary"
           /\ docStatus' = IF noInput THEN "failed" ELSE docStatus
    /\ UNCHANGED <<mapperVars, learnVars, fnVars, cfgVars>>
    /\ UNCHANGED <<path, template, apiKey, ocr, mappingResult, augmented,
                   candidates, specialistMapping, merged, result, refresh>>

\* map_fields, merge_ocr_and_vision_results, determine_specialist_candidates
PrimaryStage ==
    /\ pc = "primary"
    /\ LET fields == StageFields(path, template) IN
       \E outcome \in IF apiKey THEN {"backend_error", "parse_failure", "parsed"}
                      ELSE {"no_key"} :
       \E answer \in [fields -> UNION {PrimaryAnswers(f) : f \in FieldNames}] :
       \E evidence \in [fields -> UNION {EvidenceFor(f) : f \in FieldNames}] :
          /\ \A f \in fields : answer[f] \in PrimaryAnswers(f)
          /\ \A f \in fields : evidence[f] \in EvidenceFor(f)
          /\ outcome # "parsed" => \A f \in fields : answer[f] = Absent
          /\ (outcome # "parse_failure" \/ ocr.text = "")
                => \A f \in fields : evidence[f] = None
          /\ mappingResult' =
                MapFields(fields, template, outcome, answer, evidence, ocr)
          /\ augmented' =
                IF DOMAIN VisionMappings(visionResponse) # {}
                THEN MergeOcrAndVisionResults(mappingResult'.field_mappings,
                                              VisionMappings(visionResponse))
                ELSE mappingResult'.field_mappings
          /\ candidates' =
                DetermineSpecialistCandidates(fields, template,
                                              mappingResult'.field_mappings)
    /\ pc' = IF candidates' # {} THEN "specialist" ELSE "merge"
    /\ UNCHANGED <<mapperVars, learnVars, fnVars, cfgVars>>
    /\ UNCHANGED <<path, template, apiKey, ocr, docStatus, visionResponse,
                   specialistMapping, merged, result, refresh>>

\* worker counts of the executor (AI_HANDWRITING_MAX_WORKERS; 0 counts as 1)
WorkerCounts == {0, 1, 2}

\* interpret_fields for one task: build_prompt runs before the try block, so
\* its exception leaves the call; a missing key, a backend error and a parse
\* error come back as a payload with no field mappings. The parsed answer is
\* not restricted to the candidates.
InterpretFields(prompt_failed, failed, answer) ==
    IF prompt_failed THEN [raised |-> TRUE]
    ELSE [raised |-> FALSE,
          field_mappings |-> ParseSpecialistResponse(answer),
          error |-> failed]

\* results in the order the futures complete
DispatchAsCompleted(task_list, max_workers, finish_order) ==
    IF \E i \in 1..Len(task_list) : task_list[i].raised
    THEN [raised |-> TRUE, completed |-> 1..Len(task_list)]
    ELSE [raised |-> FALSE, completed |-> 1..Len(task_list),
          results |-> [i \in 1..Len(task_list) |-> task_list[finish_order[i]]]]

\* ExpertModelExecutor.dispatch over the outcomes of its tasks: with a pool
\* every task is submitted, the futures complete in finish_order and
\* future.result() is read in task order; without one the tasks run one after
\* the other. An exception of a task leaves dispatch. `completed` are the
\* tasks over when dispatch returns or raises.
Dispatch(task_list, max_workers, finish_order) ==
    LET n == Len(task_list)
        raising == {i \in 1..n : task_list[i].raised}
        first == IF raising = {} THEN n + 1
                 ELSE CHOOSE i \in raising : \A j \in raising : i <= j
    IN  IF n = 0 THEN [raised |-> FALSE, completed |-> {}, results |-> <<>>]
        ELSE IF Max(max_workers, 1) > 1
        THEN LET futures == [i \in Range(finish_order) |-> task_list[i]]
                 waited == 1..Min(first, n)
                 over == {finish_order[k] : k \in
                            {k \in 1..n : \E m \in k..n : finish_order[m] \in waited}}
             IN  IF raising # {}
                 THEN [raised |-> TRUE, completed |-> over]
                 ELSE [raised |-> FALSE, completed |-> over,
                       results |-> [i \in 1..n |-> futures[i]]]
        ELSE IF raising # {}
             THEN [raised |-> TRUE, completed |-> 1..first]
             ELSE [raised |-> FALSE, completed |-> 1..n,
                   results |-> [i \in 1..n |-> task_list[i]]]

\* the specialist stage: process_document_task dispatches one task through
\* the executor, analyze_document calls interpret_fields itself; an exception
\* reaches the handler of the run (document failed / HTTP 500)
SpecialistStage ==
    /\ pc = "specialist"
    /\ \E prompt_failed, failed \in BOOLEAN :
       \E max_workers \in WorkerCounts :
       \E answer \in [FieldNames -> UNION {SpecialistAnswers(f) : f \in FieldNames}] :
          /\ \A f \in FieldNames : answer[f] \in SpecialistAnswers(f)
          /\ ~apiKey => failed
          /\ failed => \A f \in FieldNames : answer[f] = Absent
          /\ LET task == InterpretFields(prompt_failed, failed, answer)
                 r == IF path = "batch"
                      THEN Dispatch(<<task>>, max_workers, <<1>>)
                      ELSE [raised |-> task.raised, results |-> <<task>>]
             IN  /\ specialistMapping' =
                       IF r.raised \/ r.results = <<>> THEN specialistMapping
                       ELSE r.results[1].field_mappings
                 /\ pc' = IF ~r.raised THEN "merge"
                          ELSE IF path = "batch" THEN "failed" ELSE "rejected"
                 /\ docStatus' = IF r.raised /\ path = "batch" THEN "failed"
                                 ELSE docStatus
    /\ UNCHANGED <<mapperVars, learnVars, fnVars, cfgVars>>
    /\ UNCHANGED <<path, template, apiKey, ocr, visionResponse,
                   mappingResult, augmented, candidates, merged, result, refresh>>

\* merge_field_mappings, completion over the template, store / respond
Finalize ==
    /\ pc = "merge"
    /\ LET m == MergeFieldMappings(augmented, specialistMapping) IN
       /\ merged' = IF path = "batch" THEN FillUnmapped(m) ELSE m
       /\ result' = IF path = "batch" THEN ExtractedData(FillUnmapped(m))
                    ELSE SuggestedMapping(m)
    /\ docStatus' = "completed"
    /\ pc' = "done"
    /\ refresh' = IF path = "batch" THEN "scheduled" ELSE "none"
    /\ UNCHANGED <<mapperVars, learnVars, fnVars, cfgVars>>
    /\ UNCHANGED <<path, template, apiKey, ocr, visionResponse, mappingResult,
                   augmented, candidates, specialistMapping>>

\* the refresh run inside process_document_task: its failure reaches the
\* handler of the document run, which marks the document failed
RunLearningRefreshInline ==
    /\ refresh = "scheduled"
    /\ \E failed \in BOOLEAN :
          /\ refresh' = IF failed THEN "failed" ELSE "refreshed"
          /\ docStatus' = IF failed THEN "failed" ELSE docStatus
    /\ UNCHANGED <<mapperVars, learnVars, fnVars, cfgVars>>
    /\ UNCHANGED <<path, template, apiKey, ocr, pc, visionResponse,
                   mappingResult, augmented, candidates, specialistMapping,
                   merged, result>>

\* _run_learning_refresh, the task _schedule_learning_refresh created on the
\* running loop: generate_template_hints in a session of its own, any
\* exception logged (no correction exists in this specification, so a
\* refresh that succeeds leaves the hints as they are)
RunLearningRefresh ==
    /\ refresh = "scheduled"
    /\ \E failed \in BOOLEAN :
          refresh' = IF failed THEN "failed" ELSE "refreshed"
    /\ UNCHANGED <<mapperVars, learnVars, fnVars, cfgVars>>
    /\ UNCHANGED <<path, template, apiKey, ocr, pc, docStatus, visionResponse,
                   mappingResult, augmented, candidates, specialistMapping,
                   merged, result>>

RunNext ==
    \/ StartRun
    \/ VisionStage
    \/ PrimaryStage
    \/ SpecialistStage
    \/ Finalize
    \/ RunLearningRefresh

(***************************************************************************)
(* map_fields called on its own (core/ai_field_mapper.py)                  *)
(***************************************************************************)
\* what the primary model may answer for a field in a direct call
MapperAnswers(f) ==
    IF f = "f1"
    THEN {Absent} \cup
         {Answer(v, c) : v \in {NULL, "", "12", "12 ab", "ab"},
                         c \in ConfInputs \cup {-20}}
    ELSE {Absent, Answer(NULL, 50)}

MapperInputs ==
    {[template |-> t, outcome |-> o, answer |-> a, evidence |-> e,
      ocr_data |-> d] :
        t \in Templates,
        o \in {"no_key", "backend_error", "parse_failure", "parsed"},
        a \in {x \in [FieldNames -> UNION {MapperAnswers(f) : f \in FieldNames}] :
                 \A f \in FieldNames : x[f] \in MapperAnswers(f)},
        e \in {x \in [FieldNames -> UNION {EvidenceFor(f) : f \in FieldNames}] :
                 \A f \in FieldNames : x[f] \in EvidenceFor(f)},
        d \in {None} \cup OcrResults}

MapperInit ==
    /\ mIn \in {i \in MapperInputs :
                  /\ i.outcome # "parsed" => \A f \in FieldNames : i.answer[f] = Absent
                  /\ i.outcome # "parse_failure"
                        => \A f \in FieldNames : i.evidence[f] = None}
    /\ mOut = None

\* one call of map_fields
MapFieldsCall ==
    /\ mOut = None
    /\ mOut' = MapFields(FieldNames, mIn.template, mIn.outcome, mIn.answer,
                         mIn.evidence, mIn.ocr_data)
    /\ UNCHANGED <<mIn, runVars, learnVars, fnVars, cfgVars>>

\* the other specifications' variables, at rest
RunIdle ==
    /\ path = "batch"
    /\ template = [f \in FieldNames |-> FieldDef(FALSE, NULL, TRUE, "standard", FALSE, <<>>)]
    /\ apiKey = FALSE
    /\ ocr = OcrRecord("", 0, 0, FALSE, NoScores)
    /\ pc = "idle"
    /\ docStatus = "pending"
    /\ visionResponse = None
    /\ mappingResult = None
    /\ augmented = EmptyMapping
    /\ candidates = {}
    /\ specialistMapping = EmptyMapping
    /\ merged = EmptyMapping
    /\ result = NoResult
    /\ refresh = "none"
MapperIdle == mIn = None /\ mOut = None
FnIdle == fnIn = None /\ fnOut = None
ConfigIdle == runConfig = None /\ batch = None
LearningIdle ==
    /\ corrections = <<>>
    /\ hints = <<>>
    /\ fieldMeta = None
    /\ sess = None

Init == RunInit /\ MapperIdle /\ LearningIdle /\ FnIdle /\ ConfigIdle
Next == RunNext
Spec == Init /\ [][Next]_vars

MapperNext == MapFieldsCall
InitMapper == RunIdle /\ MapperInit /\ LearningIdle /\ FnIdle /\ ConfigIdle
SpecMapper == InitMapper /\ [][MapperNext]_vars

(***************************************************************************)
(* LearningService (core/template_learning_service.py) over the tables of  *)
(* database.py, called from two database sessions                          *)
(***************************************************************************)
MaxRows == 2
MaxLearnRuns == 2

Sessions == {"s1", "s2"}
LearningHintType == "auto_learning"
SampleLimit == 50
MaxExamples == 5

\* the rows of template_fields: f1 learns, f2 has learning_enabled = False;
\* any other id names no row
LearnFieldIds == {"f1", "f2"}
DocumentIds == {1}
CorrectionFieldIds == {NULL, "f1"}
CorrectedInputs == {NULL, "12", "AB"}
OriginalInputs == {NULL, "x"}

\* _DATE_PATTERNS, _NUMBER_PATTERN and _ALNUM_PATTERN on the sample values
DatePatternsOf(value) ==
    IF value = "2024-01-05" THEN {"iso"}
    ELSE IF value = "05.01.2024" THEN {"dmy"} ELSE {}
MatchDate(value) == DatePatternsOf(value) # {}
MatchNumber(value) == value \in {"12", "345", "1,5"}
MatchAlnum(value) == value \in {"12", "345", "AB"}
DigitCount(value) ==
    IF value \in {"12", "1,5"} THEN 2
    ELSE IF value = "345" THEN 3
    ELSE IF MatchDate(value) THEN 8 ELSE 0
StrLen(value) ==
    IF value \in {"12", "AB"} THEN 2
    ELSE IF value \in {"345", "1,5"} THEN 3
    ELSE IF MatchDate(value) THEN 10 ELSE 0

Pattern(kind, lo, hi, text) == [kind |-> kind, lo |-> lo, hi |-> hi, text |-> text]

SetMin(S) == CHOOSE x \in S : \A y \in S : x <= y
SetMax(S) == CHOOSE x \in S : \A y \in S : x >= y

\* Counter.most_common(1): the largest count, the key counted first on a tie
MostCommon(keys, count(_), first(_)) ==
    CHOOSE k \in keys :
       \A j \in keys : count(k) > count(j)
                       \/ (count(k) = count(j) /\ first(k) <= first(j))

\* _collect_corrected_values: stripped, empty values skipped
CollectCorrectedValues(rows) ==
    SelectSeq([i \in 1..Len(rows) |-> rows[i].corrected_value],
              LAMBDA v : v \notin {"", " "})

ValueClass(value) ==
    IF MatchDate(value) THEN "date"
    ELSE IF MatchNumber(value) THEN "number" ELSE "text"

\* _infer_type
InferType(values) ==
    LET count(k) == Cardinality({i \in 1..Len(values) : ValueClass(values[i]) = k})
        keys == {ValueClass(values[i]) : i \in 1..Len(values)}
        first(k) == SetMin({i \in 1..Len(values) : ValueClass(values[i]) = k})
    IN  IF keys = {} THEN NULL
        ELSE LET most_common == MostCommon(keys, count, first) IN
             IF count(most_common) >= Max(1, Len(values) \div 2) THEN most_common
             ELSE IF count("date") > 0 /\ count("date") >= count("number") THEN "date"
             ELSE IF count("number") > 0 THEN "number"
             ELSE "text"

\* _dominant_date_pattern
DominantDatePattern(values) ==
    LET count(p) == Cardinality({i \in 1..Len(values) : p \in DatePatternsOf(values[i])})
        keys == UNION {DatePatternsOf(values[i]) : i \in 1..Len(values)}
        first(p) == SetMin({i \in 1..Len(values) : p \in DatePatternsOf(values[i])})
    IN  IF keys = {} THEN None
        ELSE LET pattern == MostCommon(keys, count, first) IN
             IF count(pattern) >= Max(1, Len(values) \div 2)
             THEN Pattern("date", 0, 0, pattern) ELSE None

\* _number_pattern
NumberPattern(values) ==
    LET lengths == {DigitCount(values[i]) : i \in {j \in 1..Len(values) : values[j] # ""}}
    IN  IF lengths = {} THEN Pattern("number", 1, 0, "")
        ELSE IF Cardinality(lengths) = 1
             THEN Pattern("number", Max(SetMax(lengths), 1), Max(SetMax(lengths), 1), "")
        ELSE Pattern("number", 1, SetMax(lengths), "")

\* _alphanumeric_pattern
AlphanumericPattern(values) ==
    LET lengths == {StrLen(values[i]) : i \in {j \in 1..Len(values) : MatchAlnum(values[j])}}
    IN  IF lengths = {} THEN None
        ELSE Pattern("alnum", SetMin(lengths), SetMax(lengths), "")

\* _infer_pattern
InferPattern(values, type_hint) ==
    IF values = <<>> THEN None
    ELSE IF type_hint = "date"
         THEN IF DominantDatePattern(values) # None THEN DominantDatePattern(values)
              ELSE Pattern("date", 0, 0, "dmy")
    ELSE IF type_hint = "number" THEN NumberPattern(values)
    ELSE IF AlphanumericPattern(values) # None THEN AlphanumericPattern(values)
    ELSE IF Cardinality(Range(values)) = 1 THEN Pattern("literal", 0, 0, values[1])
    ELSE None

\* list(dict.fromkeys(values)): first occurrences, in order
RECURSIVE Distinct(_)
Distinct(s) ==
    IF s = <<>> THEN <<>>
    ELSE LET d == Distinct(SubSeq(s, 1, Len(s) - 1)) IN
         IF s[Len(s)] \in Range(d) THEN d ELSE Append(d, s[Len(s)])

\* _build_hint_payload
BuildHintPayload(values, type_hint, regex_pattern) ==
    [source |-> "auto-learning",
     examples |-> SubSeq(Distinct(values), 1, Min(MaxExamples, Len(Distinct(values)))),
     type_hint |-> type_hint,
     regex_patterns |-> IF regex_pattern = None THEN <<>>
                        ELSE <<[pattern |-> regex_pattern, flags |-> NULL,
                                source |-> "auto-learning"]>>]

\* CorrectionFeedback and TemplateFieldHint rows (database.py)
CorrectionRow(id, document_id, template_field_id, original_value, corrected_value) ==
    [id |-> id, document_id |-> document_id,
     template_field_id |-> template_field_id,
     original_value |-> original_value, corrected_value |-> corrected_value]

HintRow(id, template_field_id, hint_type, hint_payload) ==
    [id |-> id, template_field_id |-> template_field_id,
     hint_type |-> hint_type, hint_payload |-> hint_payload]

\* uq_correction_feedback_document_field_value: a row with the same
\* (document_id, template_field_id, corrected_value) exists; a NULL
\* template_field_id never equals another NULL in a unique constraint
CorrectionUniqueViolation(rows, document_id, template_field_id, corrected_value) ==
    /\ template_field_id # NULL
    /\ \E i \in 1..Len(rows) :
          /\ rows[i].document_id = document_id
          /\ rows[i].template_field_id = template_field_id
          /\ rows[i].corrected_value = corrected_value

\* uq_template_field_hint_type
HintUniqueViolation(rows, template_field_id, hint_type) ==
    \E i \in 1..Len(rows) :
       rows[i].template_field_id = template_field_id /\ rows[i].hint_type = hint_type

\* Query.first() over the rows that satisfy a filter
FirstRow(rows, Keep(_)) ==
    LET hits == SelectSeq(rows, Keep) IN
    IF hits = <<>> THEN None ELSE hits[1]

\* record_correction: corrected_text, and the stored `corrected_text or ""`
CorrectedText(corrected_value) == corrected_value
StoredCorrectedValue(corrected_value) ==
    IF CorrectedText(corrected_value) = NULL THEN "" ELSE CorrectedText(corrected_value)

IdleSession ==
    [op |-> "none", pc |-> "idle", document_id |-> 0, field |-> NULL,
     corrected |-> NULL, original |-> NULL, payload |-> None, hint |-> None,
     ret |-> <<>>, overlapped |-> FALSE]

CallOver(s) == sess[s].pc \in {"idle", "returned", "raised"}

\* a call begins in session s: calls in progress in other sessions overlap it
BeginCall(s, call) ==
    [t \in Sessions |->
        IF t = s THEN [call EXCEPT !.overlapped = \E u \in Sessions \ {s} : ~CallOver(u)]
        ELSE IF CallOver(t) THEN sess[t]
        ELSE [sess[t] EXCEPT !.overlapped = TRUE]]

PendingInserts ==
    Cardinality({t \in Sessions : sess[t].op = "record" /\ sess[t].pc \in {"flush", "commit"}})

LearnInit ==
    /\ corrections = <<>>
    /\ hints = <<>>
    /\ fieldMeta = [f \in LearnFieldIds |->
                      [learning_enabled |-> (f = "f1"), auto_learned_type |-> NULL,
                       last_learned_at |-> 0]]
    /\ sess = [s \in Sessions |-> IdleSession]

\* record_correction is called: the CorrectionFeedback object is built and added
RecordCorrectionBegin(s) ==
    /\ CallOver(s)
    /\ Len(corrections) + PendingInserts < MaxRows
    /\ \E d \in DocumentIds, f \in CorrectionFieldIds,
          v \in CorrectedInputs, o \in OriginalInputs :
          sess' = BeginCall(s, [IdleSession EXCEPT !.op = "record", !.pc = "flush",
                                   !.document_id = d, !.field = f,
                                   !.corrected = v, !.original = o])
    /\ UNCHANGED <<runVars, mapperVars, fnVars, cfgVars>>
    /\ UNCHANGED <<corrections, hints, fieldMeta>>

\* db.flush(): the INSERT waits while another session holds an uncommitted
\* row with the same unique key, then succeeds or raises IntegrityError
RecordFlush(s) ==
    LET c == sess[s] IN
    /\ c.op = "record" /\ c.pc = "flush"
    /\ ~ \E t \in Sessions \ {s} :
          /\ sess[t].op = "record" /\ sess[t].pc = "commit"
          /\ c.field # NULL
          /\ sess[t].document_id = c.document_id /\ sess[t].field = c.field
          /\ StoredCorrectedValue(sess[t].corrected) = StoredCorrectedValue(c.corrected)
    /\ sess' = [sess EXCEPT ![s].pc =
                  IF CorrectionUniqueViolation(corrections, c.document_id, c.field,
                                               StoredCorrectedValue(c.corrected))
                  THEN "duplicate" ELSE "commit"]
    /\ UNCHANGED <<runVars, mapperVars, fnVars, cfgVars>>
    /\ UNCHANGED <<corrections, hints, fieldMeta>>

\* db.commit() after a clean flush; the new row is returned
RecordCommit(s) ==
    LET c == sess[s] IN
    /\ c.op = "record" /\ c.pc = "commit"
    /\ corrections' = Append(corrections,
                             CorrectionRow(Len(corrections) + 1, c.document_id, c.field,
                                           c.original, StoredCorrectedValue(c.corrected)))
    /\ sess' = [sess EXCEPT ![s].pc = "returned", ![s].original = NULL,
                            ![s].ret = <<Len(corrections) + 1>>]
    /\ UNCHANGED <<runVars, mapperVars, fnVars, cfgVars>>
    /\ UNCHANGED <<hints, fieldMeta>>

\* except IntegrityError: rollback, look the existing row up, overwrite its
\* original value and context, flush and commit; re-raise when none is found
RecordDuplicate(s) ==
    LET c == sess[s]
        existing == FirstRow(corrections,
                             LAMBDA r : /\ r.document_id = c.document_id
                                        /\ r.template_field_id = c.field
                                        /\ r.corrected_value = CorrectedText(c.corrected))
    IN
    /\ c.op = "record" /\ c.pc = "duplicate"
    /\ IF existing # None
       THEN /\ corrections' = [i \in 1..Len(corrections) |->
                                 IF corrections[i].id = existing.id
                                 THEN [corrections[i] EXCEPT !.original_value = c.original]
                                 ELSE corrections[i]]
            /\ sess' = [sess EXCEPT ![s].pc = "returned", ![s].original = NULL,
                                    ![s].ret = <<existing.id>>]
       ELSE /\ corrections' = corrections
            /\ sess' = [sess EXCEPT ![s].pc = "raised", ![s].original = NULL]
    /\ UNCHANGED <<runVars, mapperVars, fnVars, cfgVars>>
    /\ UNCHANGED <<hints, fieldMeta>>

Reverse(s) == [i \in 1..Len(s) |-> s[Len(s) + 1 - i]]

\* generate_field_hint: the corrections of the field, newest first (rows are
\* kept in creation order), at most sample_limit of them
FieldCorrections(rows, template_field_id, sample_limit) ==
    LET mine == Reverse(SelectSeq(rows, LAMBDA r : r.template_field_id = template_field_id))
    IN  SubSeq(mine, 1, Min(sample_limit, Len(mine)))

LearnedPayload(rows, template_field_id) ==
    LET values == CollectCorrectedValues(
                     FieldCorrections(rows, template_field_id, SampleLimit))
        type_hint == InferType(values)
    IN  BuildHintPayload(values, type_hint, InferPattern(values, type_hint))

\* a hint write that adds a row whether or not one was found
AppendHint(rows, hint, template_field_id, hint_payload) ==
    Append(rows, HintRow(Len(rows) + 1, template_field_id, LearningHintType,
                         hint_payload))

\* generate_field_hint writes the hint: the payload of the row it found is
\* replaced, a new row is added when it found none
UpsertHint(rows, hint, template_field_id, hint_payload) ==
    IF hint # None
    THEN [i \in 1..Len(rows) |->
            IF rows[i].id = hint.id
            THEN [rows[i] EXCEPT !.hint_payload = hint_payload] ELSE rows[i]]
    ELSE Append(rows, HintRow(Len(rows) + 1, template_field_id, LearningHintType,
                              hint_payload))

\* generate_field_hint is called: field lookup, learning_enabled check,
\* corrections query, inference of type, pattern and payload
GenerateFieldHintBegin(s) ==
    /\ CallOver(s)
    /\ \E f \in LearnFieldIds \cup {"f9"} :
          LET call == [IdleSession EXCEPT !.op = "generate", !.field = f]
              values == CollectCorrectedValues(FieldCorrections(corrections, f, SampleLimit))
          IN
          /\ f \in DOMAIN fieldMeta => fieldMeta[f].last_learned_at < MaxLearnRuns
          /\ IF \/ f \notin DOMAIN fieldMeta
                \/ ~fieldMeta[f].learning_enabled
                \/ values = <<>>
             THEN sess' = [sess EXCEPT ![s] = [call EXCEPT !.pc = "returned"]]
             ELSE sess' = BeginCall(s, [call EXCEPT !.pc = "query_hint",
                                           !.payload = LearnedPayload(corrections, f)])
    /\ UNCHANGED <<runVars, mapperVars, fnVars, cfgVars>>
    /\ UNCHANGED <<corrections, hints, fieldMeta>>

\* the query for the field's auto_learning hint
GenerateQueryHint(s) ==
    LET c == sess[s] IN
    /\ c.op = "generate" /\ c.pc = "query_hint"
    /\ sess' = [sess EXCEPT ![s].pc = "flush",
                  ![s].hint = FirstRow(hints,
                                 LAMBDA h : /\ h.template_field_id = c.field
                                            /\ h.hint_type = LearningHintType)]
    /\ UNCHANGED <<runVars, mapperVars, fnVars, cfgVars>>
    /\ UNCHANGED <<corrections, hints, fieldMeta>>

\* db.flush(): the UPDATE of the field row waits while another session holds
\* an uncommitted update of it; the INSERT of a new hint row raises
\* IntegrityError when a hint of the field and type has been committed
GenerateFlush(s) ==
    LET c == sess[s] IN
    /\ c.op = "generate" /\ c.pc = "flush"
    /\ ~ \E t \in Sessions \ {s} :
          sess[t].op = "generate" /\ sess[t].pc = "commit" /\ sess[t].field = c.field
    /\ sess' = [sess EXCEPT ![s].pc =
                  IF c.hint = None /\ HintUniqueViolation(hints, c.field, LearningHintType)
                  THEN "raised" ELSE "commit"]
    /\ UNCHANGED <<runVars, mapperVars, fnVars, cfgVars>>
    /\ UNCHANGED <<corrections, hints, fieldMeta>>

\* db.commit(): the hint and the field's auto_learned_type and
\* last_learned_at (a logical clock) become visible; the hint is returned
GenerateCommit(s) ==
    LET c == sess[s]
        written == UpsertHint(hints, c.hint, c.field, c.payload)
    IN
    /\ c.op = "generate" /\ c.pc = "commit"
    /\ hints' = written
    /\ fieldMeta' = [fieldMeta EXCEPT
                       ![c.field].auto_learned_type =
                           IF c.payload.type_hint # NULL THEN c.payload.type_hint ELSE @,
                       ![c.field].last_learned_at = @ + 1]
    /\ sess' = [sess EXCEPT ![s].pc = "returned",
                  ![s].ret = IF c.hint # None THEN <<c.hint.id>> ELSE <<Len(written)>>]
    /\ UNCHANGED <<runVars, mapperVars, fnVars, cfgVars>>
    /\ UNCHANGED corrections

LearningStep(s) ==
    \/ RecordCorrectionBegin(s)
    \/ RecordFlush(s)
    \/ RecordCommit(s)
    \/ RecordDuplicate(s)
    \/ GenerateFieldHintBegin(s)
    \/ GenerateQueryHint(s)
    \/ GenerateFlush(s)
    \/ GenerateCommit(s)

LearningNext == \E s \in Sessions : LearningStep(s)

InitLearning == RunIdle /\ MapperIdle /\ LearnInit /\ FnIdle /\ ConfigIdle
SpecLearning == InitLearning /\ [][LearningNext]_vars

(***************************************************************************)
(* The configuration step of an extraction run, after the learning service *)
(* of one session (SpecHints): analyze_document and process_document_task  *)
(* load the learned hints and build the runtime configuration              *)
(***************************************************************************)
\* field_hints the template's extraction rules give (build_field_hints)
RuleHintSets ==
    {EmptyMapping,
     [f \in {"f1"} |-> [regex_patterns |->
                           <<[pattern |-> "digits", flags |-> NULL,
                              source |-> "template"]>>]]}

\* TemplateLearningService.load_learned_hints: field -> payload of the
\* committed hints
LoadLearnedHints(rows) ==
    [f \in {r.template_field_id : r \in Range(rows)} |->
        (CHOOSE r \in Range(rows) : r.template_field_id = f).hint_payload]

\* build_runtime_configuration(extraction_rules, default_language) called
\* with keywords: it has no keyword parameter, so any keyword is a TypeError
BuildRuntimeConfiguration(rule_hints, keywords) ==
    IF keywords # {} THEN [raised |-> "TypeError"]
    ELSE [field_hints |-> rule_hints]

\* a run starts: load_learned_hints, then build_runtime_configuration with
\* learned_hints=...; an exception ends the run (batch: status failed,
\* analyze: error response) before any stage
StartExtractionRun ==
    /\ runConfig = None
    /\ \E p \in {"analyze", "batch"}, rules \in RuleHintSets :
          LET learned_hints == LoadLearnedHints(hints)
              runtime_config ==
                 BuildRuntimeConfiguration(rules, {"learned_hints"})
              raised == "raised" \in DOMAIN runtime_config
          IN  runConfig' =
                 [path |-> p,
                  committed |-> hints,
                  learned_hints |-> learned_hints,
                  field_hints |-> IF raised THEN None
                                  ELSE runtime_config.field_hints,
                  status |-> IF raised THEN "failed" ELSE "processing"]
    /\ UNCHANGED <<runVars, mapperVars, learnVars, fnVars, batch>>

HintsNext == LearningStep("s1") \/ StartExtractionRun
InitHints == RunIdle /\ MapperIdle /\ LearnInit /\ FnIdle /\ ConfigIdle
SpecHints == InitHints /\ [][HintsNext]_vars

(***************************************************************************)
(* Functions of the core modules called on their own (SpecFn)              *)
(***************************************************************************)
\* OCRQualityAnalyzer.evaluate: the score, in thousandths
QualityScore(o) ==
    LET word_count == IF o.word_count = 0 /\ o.text # "" THEN SplitCount(o.text)
                      ELSE o.word_count
        confidence_component == Max(Min(o.average_confidence, 100), 0)
        density_component == IF MinWordCount > 0
                             THEN (1000 * Min(word_count, MinWordCount)) \div MinWordCount
                             ELSE 1000
    IN  (confidence_component * 10 * 7 + density_component * 3) \div 10

\* OCRQualityAnalyzer.evaluate: the report (reasons as a set)
Evaluate(ocr_result, allow_empty_text) ==
    IF ocr_result = None
    THEN [score |-> 0, reasons |-> {"empty_result"}, should_fallback |-> TRUE]
    ELSE [score |-> QualityScore(ocr_result),
          reasons |-> QualityReasons(ocr_result, allow_empty_text),
          should_fallback |-> QualityReasons(ocr_result, allow_empty_text) # {}]

EvaluateInputs ==
    [fn : {"evaluate"},
     ocr_result : {None} \cup
        {OcrRecord(t, wc, avg, err, NoScores) :
            t \in {"", "one two", "a b c d e f"}, wc \in {0, 4, 5},
            avg \in {50, 55, 90}, err \in BOOLEAN},
     allow_empty_text : BOOLEAN]

EvaluateCall ==
    /\ fnIn.fn = "evaluate" /\ fnOut = None
    /\ fnOut' = Evaluate(fnIn.ocr_result, fnIn.allow_empty_text)
    /\ UNCHANGED <<fnIn, runVars, mapperVars, learnVars, cfgVars>>

\* determine_specialist_candidates: templates (one mixing a specialist tier
\* with a standard field), field lists and upstream mappings it is called on
CandidateTemplates ==
    Templates \cup
    {[f \in FieldNames |->
        IF f = "f1" THEN FieldDef(FALSE, NULL, TRUE, "guided", FALSE, <<>>)
        ELSE FieldDef(FALSE, NULL, TRUE, "standard", FALSE, <<>>)]}

UpstreamMappings ==
    UNION {[D -> {Entry("12", c, "llm-primary", <<>>) : c \in {40, 55, 70, 95}}] :
              D \in SUBSET FieldNames}

CandidateInputs ==
    [fn : {"candidates"}, fields : (SUBSET FieldNames) \ {{}},
     template : CandidateTemplates, primary_mapping : UpstreamMappings]

DetermineSpecialistCandidatesCall ==
    /\ fnIn.fn = "candidates" /\ fnOut = None
    /\ fnOut' = [candidates |->
                    DetermineSpecialistCandidates(fnIn.fields, fnIn.template,
                                                  fnIn.primary_mapping)]
    /\ UNCHANGED <<fnIn, runVars, mapperVars, learnVars, cfgVars>>

\* SmartVisionFallback._parse_field_mappings.  A text is a sequence of
\* tokens: a JSON object, a markdown code fence, free words
JsonObject(content) == [json |-> [field_mappings |-> content]]
FenceOpen == [token |-> "fence_json"]
FenceClose == [token |-> "fence"]
Words == [token |-> "words"]

\* the vision answer in its four forms: the payload is the mapping object
\* itself, or carries a text
VisionPayload(form, content) ==
    CASE form = "dict" -> [field_mappings |-> content]
      [] form = "json_text" -> [text |-> <<JsonObject(content)>>]
      [] form = "fenced" ->
            [text |-> <<FenceOpen, JsonObject(content), FenceClose>>]
      [] form = "free_text" -> [text |-> <<Words, JsonObject(content), Words>>]

\* json.loads: the text is one JSON value and nothing else, or
\* JSONDecodeError (None)
JsonLoads(text) ==
    IF Len(text) = 1 /\ "json" \in DOMAIN text[1] THEN text[1].json ELSE None

\* _extract_from_dict
ExtractFromDict(payload) ==
    IF "field_mappings" \in DOMAIN payload
    THEN NormalizeFieldMapping(payload.field_mappings)
    ELSE EmptyMapping

\* _parse_field_mappings: the payload's own mappings, else its text through
\* json.loads alone
ParseFieldMappings(response_payload) ==
    LET direct == ExtractFromDict(response_payload)
        text_output == IF "text" \in DOMAIN response_payload
                       THEN response_payload.text ELSE <<>>
        parsed == JsonLoads(text_output)
    IN  IF DOMAIN direct # {} THEN direct
        ELSE IF text_output = <<>> \/ parsed = None THEN EmptyMapping
        ELSE ExtractFromDict(parsed)

VisionContents ==
    {c \in [FieldNames -> UNION {VisionAnswers(f) : f \in FieldNames}] :
        \A f \in FieldNames : c[f] \in VisionAnswers(f)}

ParseInputs ==
    [fn : {"parse_vision"},
     form : {"dict", "json_text", "fenced", "free_text"},
     content : VisionContents]

ParseFieldMappingsCall ==
    /\ fnIn.fn = "parse_vision"
    /\ fnOut = None
    /\ fnOut' = [mappings |->
                    ParseFieldMappings(VisionPayload(fnIn.form, fnIn.content))]
    /\ UNCHANGED <<fnIn, runVars, mapperVars, learnVars, cfgVars>>

\* reanalyze_fields (routes/template.py).  The keyword parameters
\* determine_specialist_candidates declares
CandidateKeywords == {"low_confidence_floor", "allowed_tiers"}

\* determine_specialist_candidates called with the given keywords: a
\* keyword it does not declare is a TypeError
CallDetermineSpecialistCandidates(fields, tpl, primary_mapping, keywords) ==
    IF keywords \subseteq CandidateKeywords
    THEN [candidates |->
             DetermineSpecialistCandidates(fields, tpl, primary_mapping)]
    ELSE [raised |-> "TypeError"]

\* _normalize_primary_mapping: the caller's entries of the allowed fields
NormalizePrimaryMapping(raw_mapping, allowed) ==
    [f \in DOMAIN raw_mapping \cap allowed |->
        Entry(raw_mapping[f].value, raw_mapping[f].confidence,
              raw_mapping[f].source, <<>>)]

ReanalyzeResponse(status_code, updated, requested, processed, resolved, missing) ==
    [status_code |-> status_code, updated_fields |-> updated,
     requested_fields |-> requested, processed_fields |-> processed,
     resolved_fields |-> resolved, missing_fields |-> missing]

ReanalyzeError(status_code) ==
    ReanalyzeResponse(status_code, EmptyMapping, {}, {}, {}, {})

\* the update of one field: the merged entry with its status
FieldUpdate(entry) ==
    [value |-> entry.value, confidence |-> entry.confidence,
     status |-> CalculateFieldStatus(entry.confidence),
     source |-> entry.source, alternates |-> entry.alternates]

\* reanalyze_fields; sanitized_fields are the stripped, non-blank names of
\* the request, answer is what the specialist model returns
ReanalyzeFields(sanitized_fields, tpl, current_mapping, rules, ocr_text, answer) ==
    LET missing_fields == sanitized_fields \ FieldNames
        valid_fields == sanitized_fields \cap FieldNames
        runtime_config == BuildRuntimeConfiguration(rules, {"learned_hints"})
        primary_mapping == NormalizePrimaryMapping(current_mapping, valid_fields)
        called == CallDetermineSpecialistCandidates(
                     FieldNames, tpl, primary_mapping,
                     CandidateKeywords \cup {"requested_fields"})
        specialist_mapping == ParseSpecialistResponse(answer)
        merged_mappings == MergeFieldMappings(primary_mapping, specialist_mapping)
    IN  IF sanitized_fields = {} \/ valid_fields = {} THEN ReanalyzeError(400)
        ELSE IF "raised" \in DOMAIN runtime_config THEN ReanalyzeError(500)
        ELSE IF ocr_text = "" THEN ReanalyzeError(500)
        ELSE IF "raised" \in DOMAIN called THEN ReanalyzeError(500)
        ELSE IF called.candidates = {}
        THEN ReanalyzeResponse(200, EmptyMapping, sanitized_fields, {}, {},
                               missing_fields)
        ELSE ReanalyzeResponse(
                200,
                [f \in valid_fields \cap DOMAIN merged_mappings |->
                    FieldUpdate(merged_mappings[f])],
                sanitized_fields, called.candidates,
                DOMAIN specialist_mapping, missing_fields)

ReanalyzeInputs ==
    [fn : {"reanalyze"},
     fields : SUBSET (FieldNames \cup {"zz"}),
     template : Templates,
     current_mapping :
        UNION {[D -> {Entry("12", c, "llm-primary", <<>>) : c \in {35, 95}}] :
                 D \in SUBSET FieldNames},
     rules : RuleHintSets,
     ocr_text : {"", "text"},
     answer : {a \in [FieldNames -> UNION {SpecialistAnswers(f) : f \in FieldNames}] :
                 \A f \in FieldNames : a[f] \in SpecialistAnswers(f)}]

ReanalyzeFieldsCall ==
    /\ fnIn.fn = "reanalyze"
    /\ fnOut = None
    /\ fnOut' = ReanalyzeFields(fnIn.fields, fnIn.template, fnIn.current_mapping,
                                fnIn.rules, fnIn.ocr_text, fnIn.answer)
    /\ UNCHANGED <<fnIn, runVars, mapperVars, learnVars, cfgVars>>

\* the longest run of digits in a sample value
LongestDigitRun(value) ==
    IF value = "12" THEN 2
    ELSE IF value = "345" THEN 3
    ELSE IF value = "1,5" THEN 1
    ELSE IF MatchDate(value) THEN 4 ELSE 0

\* compiled.findall / re.search of a learned number pattern
\* -?\d{lo,hi}(?:[.,]\d+)? on a value: it needs lo digits in a row
NumberPatternFinds(pattern, value) ==
    pattern.kind = "number" /\ LongestDigitRun(value) >= Max(pattern.lo, 1)

\* generate_field_hint's inference over the collected values (stripped, not
\* empty): _infer_type, then _infer_pattern with the type it found
MaxSamples == 3

SampleValues == {"12", "345", "1,5", "AB", "2024-01-05"}

InferInputs ==
    {[fn |-> "infer_hint", values |-> v] :
        v \in UNION {[1..n -> SampleValues] : n \in 1..MaxSamples}}

InferHintCall ==
    /\ fnIn.fn = "infer_hint"
    /\ fnOut = None
    /\ LET type_hint == InferType(fnIn.values)
       IN  fnOut' = [type_hint |-> type_hint,
                     regex_pattern |-> InferPattern(fnIn.values, type_hint)]
    /\ UNCHANGED <<fnIn, runVars, mapperVars, learnVars, cfgVars>>

\* _pre_detect_fields, the pattern part for one field: `found` holds, per
\* pattern candidate (the template's regex_hint first, then the hint
\* patterns), what compiled.findall returned on the OCR text
MaxMatches == 3

PatternEvidence(found) ==
    LET pattern_evidence ==
           SelectSeq([i \in 1..Len(found) |->
                         [source |-> found[i].source,
                          matches |-> found[i].matches]],
                     LAMBDA e : e.matches # <<>>)
    IN  IF pattern_evidence = <<>> THEN Absent
        ELSE IF Len(pattern_evidence) = 1 THEN pattern_evidence[1]
        ELSE [patterns |-> pattern_evidence]

FindallResults == UNION {[1..n -> {"12", "34"}] : n \in 0..MaxMatches}

PreDetectInputs ==
    {[fn |-> "pre_detect", found |-> <<[source |-> "template", matches |-> m]>>] :
        m \in FindallResults}
    \cup
    {[fn |-> "pre_detect",
      found |-> <<[source |-> "template", matches |-> m],
                  [source |-> "auto-learning", matches |-> h]>>] :
        m \in FindallResults, h \in FindallResults}

PreDetectFieldsCall ==
    /\ fnIn.fn = "pre_detect"
    /\ fnOut = None
    /\ fnOut' = [evidence |-> PatternEvidence(fnIn.found)]
    /\ UNCHANGED <<fnIn, runVars, mapperVars, learnVars, cfgVars>>

FnInit ==
    /\ fnIn \in EvaluateInputs \cup CandidateInputs \cup ParseInputs
                \cup ReanalyzeInputs \cup InferInputs \cup PreDetectInputs
    /\ fnOut = None
InitFn == RunIdle /\ MapperIdle /\ LearningIdle /\ FnInit /\ ConfigIdle
FnNext ==
    \/ EvaluateCall
    \/ DetermineSpecialistCandidatesCall
    \/ ParseFieldMappingsCall
    \/ ReanalyzeFieldsCall
    \/ InferHintCall
    \/ PreDetectFieldsCall
SpecFn == InitFn /\ [][FnNext]_vars

(***************************************************************************)
(* Batch jobs (routes/batch.py) over the pending documents of one template *)
(* (SpecBatch): start requests, the background tasks they queue, status    *)
(* polls, and the deletion of the template.  A handler runs without        *)
(* suspending; handlers and background tasks of different requests         *)
(* interleave.  A handler that ends in an error before its first write     *)
(* (HTTP 404 / 500) changes nothing and is left out.                       *)
(***************************************************************************)
MaxJobs == 2
Docs == {"d1", "d2"}

DocRow(status, batch_job_id, extracted) ==
    [status |-> status, batch_job_id |-> batch_job_id, extracted |-> extracted]

\* uploaded documents of the template: pending, no job, no ExtractedData
BatchInit ==
    batch = [template |-> "present",
             docs |-> [d \in Docs |-> DocRow("pending", 0, 0)],
             jobs |-> <<>>,
             queued |-> {},
             running |-> {},
             polled |-> 0]

LinkedTo(docs, j) == {d \in Docs : docs[d].batch_job_id = j}

\* start_batch_processing: the pending documents are counted into a new
\* job, linked to it, and one background task per document is queued
StartBatchProcessing ==
    /\ batch # None
    /\ Len(batch.jobs) < MaxJobs
    /\ batch.template = "present"
    /\ LET documents == {d \in Docs : batch.docs[d].status = "pending"}
           id == Len(batch.jobs) + 1
       IN  /\ documents # {}
           /\ batch' = [batch EXCEPT
                 !.jobs = Append(@, [status |-> "processing",
                                     total_files |-> Cardinality(documents)]),
                 !.docs = [d \in Docs |->
                             IF d \in documents
                             THEN [@[d] EXCEPT !.batch_job_id = id] ELSE @[d]],
                 !.queued = @ \cup {<<id, d>> : d \in documents},
                 !.polled = 0]
    /\ UNCHANGED <<runVars, mapperVars, learnVars, fnVars, runConfig>>

\* process_document_task up to the first status update: a missing template
\* ends the task with the document untouched, a failing configuration
\* reaches the handler (failed), otherwise the document is in processing
ProcessDocumentTaskBegin ==
    /\ batch # None
    /\ \E t \in batch.queued :
       \E configured \in BOOLEAN :
          batch' = [batch EXCEPT
             !.queued = @ \ {t},
             !.running = IF batch.template = "present" /\ configured
                         THEN @ \cup {t} ELSE @,
             !.docs[t[2]].status =
                 IF batch.template # "present" THEN @
                 ELSE IF configured THEN "processing" ELSE "failed",
             !.polled = 0]
    /\ UNCHANGED <<runVars, mapperVars, learnVars, fnVars, runConfig>>

\* the rest of process_document_task: an ExtractedData row and status
\* completed in one commit, or the handler's status failed
ProcessDocumentTaskEnd ==
    /\ batch # None
    /\ \E t \in batch.running :
       \E completed \in BOOLEAN :
          batch' = [batch EXCEPT
             !.running = @ \ {t},
             !.docs[t[2]] =
                 IF completed
                 THEN DocRow("completed", @.batch_job_id, @.extracted + 1)
                 ELSE DocRow("failed", @.batch_job_id, @.extracted),
             !.polled = 0]
    /\ UNCHANGED <<runVars, mapperVars, learnVars, fnVars, runConfig>>

\* get_batch_status: counts the documents linked to the job and completes
\* the job when completed + failed reaches their number
GetBatchStatus ==
    /\ batch # None
    /\ \E batch_job_id \in 1..Len(batch.jobs) :
          LET linked == LinkedTo(batch.docs, batch_job_id)
              total_docs == Cardinality(linked)
              completed_docs ==
                 Cardinality({d \in linked : batch.docs[d].status = "completed"})
              failed_docs ==
                 Cardinality({d \in linked : batch.docs[d].status = "failed"})
          IN  batch' = [batch EXCEPT
                 !.jobs[batch_job_id].status =
                     IF completed_docs + failed_docs >= total_docs
                     THEN "completed" ELSE @,
                 !.polled = batch_job_id]
    /\ UNCHANGED <<runVars, mapperVars, learnVars, fnVars, runConfig>>

\* delete_template: the row goes, documents and jobs keep a NULL template_id
DeleteTemplate ==
    /\ batch # None
    /\ batch.template = "present"
    /\ batch' = [batch EXCEPT !.template = "deleted", !.polled = 0]
    /\ UNCHANGED <<runVars, mapperVars, learnVars, fnVars, runConfig>>

BatchNext ==
    \/ StartBatchProcessing
    \/ ProcessDocumentTaskBegin
    \/ ProcessDocumentTaskEnd
    \/ GetBatchStatus
    \/ DeleteTemplate
InitBatch ==
    RunIdle /\ MapperIdle /\ LearningIdle /\ FnIdle /\ runConfig = None /\ BatchInit
SpecBatch == InitBatch /\ [][BatchNext]_vars

(***************************************************************************)
(* Properties of the merge stages and of the final result (Spec)           *)
(***************************************************************************)
PrimaryMappings == IF mappingResult = None THEN EmptyMapping
                   ELSE mappingResult.field_mappings

Stage1Merged == pc \in {"specialist", "merge", "done"}
                /\ DOMAIN VisionMappings(visionResponse) # {}
Stage2Merged == pc = "done"

HigherOf(base, overlay) ==
    IF base.confidence > overlay.confidence THEN base ELSE overlay

AsAlt(e) == Alt(e.value, e.confidence, e.source)

\* C1: in both merge stages, for every field present in both inputs with
\* different confidences, the merged value and source are those of the input
\* with the higher confidence, whichever argument carried it.
C1_HigherConfidenceWins ==
    /\ Stage1Merged =>
          \A f \in DOMAIN PrimaryMappings \cap DOMAIN VisionMappings(visionResponse) :
             LET b == PrimaryMappings[f]
                 o == VisionMappings(visionResponse)[f]
             IN  b.confidence # o.confidence =>
                    /\ augmented[f].value = HigherOf(b, o).value
                    /\ augmented[f].source = HigherOf(b, o).source
                    /\ augmented[f].confidence = HigherOf(b, o).confidence
    /\ Stage2Merged =>
          \A f \in DOMAIN augmented \cap DOMAIN specialistMapping :
             LET b == augmented[f]
                 o == specialistMapping[f]
             IN  b.confidence # o.confidence =>
                    /\ merged[f].value = HigherOf(b, o).value
                    /\ merged[f].source = HigherOf(b, o).source
                    /\ merged[f].confidence = HigherOf(b, o).confidence

\* C1 witness: a finished run in which the vision overlay beat the primary
\* base in the first merge and the base beat the specialist overlay in the
\* second.
C1_Witness ==
    /\ pc = "done"
    /\ \E f \in DOMAIN PrimaryMappings \cap DOMAIN VisionMappings(visionResponse)
                \cap DOMAIN specialistMapping :
          /\ PrimaryMappings[f].value # NULL /\ specialistMapping[f].value # NULL
          /\ VisionMappings(visionResponse)[f].confidence > PrimaryMappings[f].confidence
          /\ specialistMapping[f].confidence < augmented[f].confidence
          /\ merged[f].source = "vision"

\* C2: in both merge stages, on equal confidences the overlay becomes the
\* result and the base entry is pushed onto the result's alternates.
C2_TieFavorsOverlay ==
    /\ Stage1Merged =>
          \A f \in DOMAIN PrimaryMappings \cap DOMAIN VisionMappings(visionResponse) :
             LET b == PrimaryMappings[f]
                 o == VisionMappings(visionResponse)[f]
             IN  b.confidence = o.confidence =>
                    /\ augmented[f].value = o.value
                    /\ augmented[f].source = o.source
                    /\ AsAlt(b) \in Range(augmented[f].alternates)
    /\ Stage2Merged =>
          \A f \in DOMAIN augmented \cap DOMAIN specialistMapping :
             LET b == augmented[f]
                 o == specialistMapping[f]
             IN  b.confidence = o.confidence =>
                    /\ merged[f].value = o.value
                    /\ merged[f].source = o.source
                    /\ AsAlt(b) \in Range(merged[f].alternates)

\* the candidates the stages produced for a field: the primary, vision and
\* specialist entries that carry a value, and the alternates a vision entry
\* brought along
StageCandidates(f) ==
    {AsAlt(m[f]) : m \in {x \in {PrimaryMappings, VisionMappings(visionResponse),
                                 specialistMapping} :
                             f \in DOMAIN x /\ x[f].value # NULL}}
    \cup (IF f \in DOMAIN VisionMappings(visionResponse)
          THEN Range(VisionMappings(visionResponse)[f].alternates) ELSE {})

\* C3: after the two-stage merge, for every field the winning entry together
\* with its alternates holds every candidate any stage produced for the
\* field, the alternates a base entry already carried included.
C3_AllCandidatesRetained ==
    Stage2Merged =>
       \A f \in DOMAIN merged :
          StageCandidates(f) \subseteq
             ({AsAlt(merged[f])} \cup Range(merged[f].alternates))

InUnit(c) == 0 <= c /\ c <= 100

\* C4: every Mapping the primary, vision and specialist stages produce, and
\* every Mapping in the output of either merge, has a confidence in [0,1].
C4_ConfidenceInRange ==
    \A m \in {PrimaryMappings, VisionMappings(visionResponse), specialistMapping,
              augmented, merged} :
       \A f \in DOMAIN m : InUnit(m[f].confidence)

\* no stage answered the field: the primary model left it out (or failed),
\* and neither the vision nor the specialist answer holds it
NoStageAnswered(f) ==
    /\ f \in DOMAIN PrimaryMappings
          => PrimaryMappings[f].source \in {"Bulunamadi", "Hata olustu"}
    /\ f \notin DOMAIN VisionMappings(visionResponse)
    /\ f \notin DOMAIN specialistMapping

C10_RequiredEmptyIsZero ==
    mOut # None =>
       \A f \in DOMAIN mOut.field_mappings :
          (mIn.template[f].required /\ ValueStr(mOut.field_mappings[f].value) = "")
             => mOut.field_mappings[f].confidence = 0

(***************************************************************************)
(* Properties of the learning service (SpecLearning)                       *)
(***************************************************************************)
HintsOf(rows, template_field_id, hint_type) ==
    {i \in 1..Len(rows) : /\ rows[i].template_field_id = template_field_id
                          /\ rows[i].hint_type = hint_type}

\* C6: generate_field_hint is idempotent: a call that finds the field's
\* auto_learning hint leaves exactly one hint for the field, with the same id
\* and the payload computed from the corrections, replacing and never
\* appending; when that payload is the stored one the table is unchanged.
C6_GenerateIdempotent ==
    [][\A s \in Sessions :
          (GenerateCommit(s) /\ sess[s].hint # None) =>
             LET f == sess[s].field
                 mine == HintsOf(hints', f, LearningHintType)
             IN  /\ Len(hints') = Len(hints)
                 /\ Cardinality(mine) = 1
                 /\ \A i \in mine : /\ hints'[i].id = sess[s].hint.id
                                    /\ hints'[i].hint_payload = sess[s].payload
                                    /\ hints[i].hint_payload = sess[s].payload
                                          => hints' = hints
                 /\ sess'[s].ret = <<sess[s].hint.id>>]_vars

\* C6 witness: a second generate_field_hint call has returned the hint it
\* found, whose payload already was the one it computed.
C6_Witness ==
    \E s \in Sessions :
       /\ sess[s].op = "generate" /\ sess[s].pc = "returned"
       /\ sess[s].hint # None
       /\ sess[s].hint.hint_payload = sess[s].payload
       /\ sess[s].ret = <<sess[s].hint.id>>
       /\ \A i \in HintsOf(hints, sess[s].field, LearningHintType) :
             hints[i].id = sess[s].hint.id

\* C7: record_correction is idempotent under duplicate submission: there is
\* at most one correction record per (document, field id, corrected value),
\* the field id being present or absent.
C7_OneRecordPerTriple ==
    \A i, j \in 1..Len(corrections) :
       (/\ corrections[i].document_id = corrections[j].document_id
        /\ corrections[i].template_field_id = corrections[j].template_field_id
        /\ corrections[i].corrected_value = corrections[j].corrected_value)
          => i = j

\* C8: when two record_correction calls for the same (document, field id,
\* corrected value) have run concurrently on separate sessions, both have
\* returned without raising and exactly one record exists for the triple.
C8_ConcurrentDuplicatesCollapse ==
    \A s, t \in Sessions :
       (/\ s # t
        /\ sess[s].op = "record" /\ sess[t].op = "record"
        /\ CallOver(s) /\ CallOver(t)
        /\ sess[s].overlapped /\ sess[t].overlapped
        /\ sess[s].document_id = sess[t].document_id
        /\ sess[s].field = sess[t].field
        /\ sess[s].corrected = sess[t].corrected)
          => /\ sess[s].pc = "returned" /\ sess[t].pc = "returned"
             /\ Cardinality({i \in 1..Len(corrections) :
                   /\ corrections[i].document_id = sess[s].document_id
                   /\ corrections[i].template_field_id = sess[s].field
                   /\ corrections[i].corrected_value =
                         StoredCorrectedValue(sess[s].corrected)}) = 1

\* C9: there is at most one LearnedHint per (field, hint type) at all times,
\* and every generate_field_hint call, concurrent ones included, completes as
\* an upsert: none ends by raising.
C9_HintUpsert ==
    /\ \A i, j \in 1..Len(hints) :
          (/\ hints[i].template_field_id = hints[j].template_field_id
           /\ hints[i].hint_type = hints[j].hint_type) => i = j
    /\ \A s \in Sessions : sess[s].op = "generate" => sess[s].pc # "raised"

(***************************************************************************)
(* Properties of the functions called on their own (SpecFn)                *)
(***************************************************************************)
Evaluated == fnIn # None /\ fnIn.fn = "evaluate" /\ fnOut # None
             /\ fnIn.ocr_result # None

\* C11: for every OCR result record, evaluate raises each flag exactly under
\* its own condition (empty_text iff the text is blank, low_word_count iff
\* the word count is below the minimum, low_confidence iff the average
\* confidence is below the minimum, ocr_error iff an error was reported) and
\* should_fallback is true iff at least one flag is present.
C11_FlagsIndependent ==
    (Evaluated /\ ~fnIn.allow_empty_text) =>
       LET o == fnIn.ocr_result
           r == fnOut.reasons
       IN  /\ "empty_text" \in r <=> o.text = ""
           /\ "low_word_count" \in r <=> o.word_count < MinWordCount
           /\ "low_confidence" \in r <=> o.average_confidence < MinAverageConfidence
           /\ "ocr_error" \in r <=> o.error
           /\ fnOut.should_fallback <=> r # {}

\* C12: with empty text tolerated, a blank text does not produce the
\* empty_text flag, and a blank text with sufficient average confidence,
\* sufficient word count and no reported error does not trigger fallback.
C12_EmptyTextTolerated ==
    (Evaluated /\ fnIn.allow_empty_text /\ fnIn.ocr_result.text = "") =>
       /\ "empty_text" \notin fnOut.reasons
       /\ (/\ fnIn.ocr_result.average_confidence >= MinAverageConfidence
           /\ fnIn.ocr_result.word_count >= MinWordCount
           /\ ~fnIn.ocr_result.error) => ~fnOut.should_fallback

\* the threshold a field's upstream confidence is compared with
CandidateThreshold(fdef) ==
    IF fdef.handwriting_threshold = <<>> THEN LowConfidenceFloor
    ELSE fdef.handwriting_threshold[1]

\* C13: determine_specialist_candidates returns exactly the template fields
\* whose tier is in the allow-list, or whose handwriting flag is set, or whose
\* upstream confidence is below the field's threshold (the global floor when
\* unset); tier or flag select a field whatever its upstream confidence.
C13_CandidatesExact ==
    (fnIn # None /\ fnIn.fn = "candidates" /\ fnOut # None) =>
       \A f \in FieldNames :
          f \in fnOut.candidates <=>
             /\ f \in fnIn.fields
             /\ \/ fnIn.template[f].llm_tier \in AllowedTiers
                \/ fnIn.template[f].auto_detected_handwriting
                \/ /\ f \in DOMAIN fnIn.primary_mapping
                   /\ fnIn.primary_mapping[f].confidence
                         < CandidateThreshold(fnIn.template[f])

\* C13 witness: one call selected a field by its tier although its upstream
\* confidence is high, and left out a standard field at the floor.
C13_Witness ==
    /\ fnIn # None /\ fnIn.fn = "candidates" /\ fnOut # None
    /\ \E f, g \in fnIn.fields \cap DOMAIN fnIn.primary_mapping :
          /\ fnIn.template[f].llm_tier \in AllowedTiers
          /\ fnIn.primary_mapping[f].confidence = 95
          /\ f \in fnOut.candidates
          /\ fnIn.primary_mapping[g].confidence = LowConfidenceFloor
          /\ g \notin fnOut.candidates

\* C14: on both paths a field whose enabled flag is false is never among the
\* specialist candidates and never carries a value taken from Evidence,
\* whatever its tier, handwriting flag or upstream confidence
C14_DisabledFieldInert ==
    \A f \in FieldNames :
        ~template[f].enabled =>
            /\ f \notin candidates
            /\ (mappingResult # None /\ f \in DOMAIN mappingResult.field_mappings)
                  => mappingResult.field_mappings[f].source
                        \notin {"template", "auto_number"}

\* C15: map_fields always returns a result covering every template field,
\* and without credentials or after a failed backend call every field of
\* that result has value null and confidence 0 and the result carries an
\* error note
C15_MapFieldsNeverRaises ==
    mOut # None =>
       /\ "field_mappings" \in DOMAIN mOut
       /\ DOMAIN mOut.field_mappings = FieldNames
       /\ mIn.outcome \in {"no_key", "backend_error"} =>
             /\ mOut.error
             /\ \A f \in FieldNames :
                   /\ mOut.field_mappings[f].value = NULL
                   /\ mOut.field_mappings[f].confidence = 0

C15_Witness ==
    /\ mOut # None
    /\ mIn.outcome = "backend_error"
    /\ mIn.ocr_data # None
    /\ \A f \in FieldNames : mOut.field_mappings[f].value = NULL

C17_FatalOnlyWithoutInput ==
    (pc \in {"rejected", "failed"} /\ apiKey) =>
       /\ ocr.text = ""
       /\ visionResponse # None
       /\ DOMAIN visionResponse.field_mappings = {}

\* C18: parsing a vision answer yields the same field mappings whether the
\* answer comes as a structured dict, as bare JSON text, as JSON inside a
\* markdown code fence or as free text containing the JSON object
C18_SameMappingsForEveryForm ==
    (fnOut # None /\ fnIn.fn = "parse_vision") =>
       fnOut.mappings = ParseFieldMappings(VisionPayload("dict", fnIn.content))

\* C19: once a batch run has stored its result and scheduled the learning
\* refresh, no step (a failing refresh included) changes the document
\* status completed or the stored ExtractedData
C19_RefreshLeavesResult ==
    [][refresh # "none" =>
          /\ docStatus = "completed"
          /\ docStatus' = "completed"
          /\ result' = result]_vars

C19_Witness ==
    /\ path = "batch"
    /\ refresh = "failed"
    /\ docStatus = "completed"
    /\ result # NoResult

\* C20: a run that starts after generate_field_hint committed a hint for a
\* field hands that hint's patterns, for that field, to the evidence
\* detector and the primary mapper; and it hands on no learned pattern
\* other than those committed when it started
C20_RunUsesCommittedHints ==
    runConfig # None =>
       \A r \in Range(runConfig.committed) :
          /\ runConfig.field_hints # None
          /\ r.template_field_id \in DOMAIN runConfig.field_hints
          /\ Range(r.hint_payload.regex_patterns) \subseteq
                Range(runConfig.field_hints[r.template_field_id].regex_patterns)

\* C21: a reanalyze request naming at least one template field (the OCR
\* text at hand) is answered with status 200; updated_fields holds only
\* requested fields, each the merge of the caller's mapping and the
\* specialist's answer; the metadata lists the requested and the resolved
\* fields; names outside the template are reported missing and are never
\* routed to the specialist
C21_ReanalyzeAnswers ==
    (fnOut # None /\ fnIn.fn = "reanalyze"
       /\ fnIn.fields \cap FieldNames # {} /\ fnIn.ocr_text # "") =>
       /\ fnOut.status_code = 200
       /\ DOMAIN fnOut.updated_fields \subseteq fnIn.fields
       /\ \A f \in DOMAIN fnOut.updated_fields :
             LET m == MergeFieldMappings(
                         NormalizePrimaryMapping(fnIn.current_mapping,
                                                 fnIn.fields \cap FieldNames),
                         ParseSpecialistResponse(fnIn.answer))[f]
             IN  /\ fnOut.updated_fields[f].value = m.value
                 /\ fnOut.updated_fields[f].confidence = m.confidence
       /\ fnOut.requested_fields = fnIn.fields
       /\ fnOut.missing_fields = fnIn.fields \ FieldNames
       /\ fnOut.processed_fields \cap fnOut.missing_fields = {}

\* task lists handed to the executor: outcomes of interpret_fields
MaxTasks == 2

TaskOutcomes ==
    {InterpretFields(FALSE, FALSE,
                     [f \in FieldNames |->
                         IF f = "f1" THEN Answer("s", c) ELSE Absent]) :
        c \in {0, 50}}
    \cup {InterpretFields(FALSE, TRUE, [f \in FieldNames |-> Absent])}

TaskLists == UNION {[1..n -> TaskOutcomes] : n \in 0..MaxTasks}

FinishOrders(n) == {o \in [1..n -> 1..n] : Range(o) = 1..n}

\* dispatch hands back one result per task, the i-th the outcome of the i-th
\* task, with every task over, whatever the pool size and the order in which
\* the tasks finish
DispatchInTaskOrder ==
    \A task_list \in TaskLists :
    \A max_workers \in WorkerCounts :
    \A finish_order \in FinishOrders(Len(task_list)) :
        LET r == Dispatch(task_list, max_workers, finish_order)
        IN  /\ ~r.raised
            /\ Len(r.results) = Len(task_list)
            /\ \A i \in 1..Len(task_list) : r.results[i] = task_list[i]
            /\ r.completed = 1..Len(task_list)

VisionTriggered ==
    IF path = "analyze" THEN ShouldFallback(ocr)
    ELSE apiKey /\ ShouldFallback(ocr)

\* C22: within a run the final merge (the step that writes the merged
\* mapping and ends the run) is taken only from the merge point, which is
\* entered only after the primary stage has answered, after the vision stage
\* has answered when it was triggered, and after the specialist stage is
\* over when candidates were found; and dispatch returns one result per
\* task, in task order, with all tasks over, sequential or pooled
C22_MergeAfterAllStages ==
    /\ [][/\ (merged' # merged \/ result' # result) => pc = "merge"
          /\ (pc' = "merge" /\ pc # "merge") =>
                /\ mappingResult' # None
                /\ VisionTriggered => visionResponse' # None
                /\ IF candidates' # {} THEN pc = "specialist"
                   ELSE pc = "primary"
          /\ (pc' = "specialist" /\ pc # "specialist") => pc = "primary"
          /\ (pc' = "primary" /\ pc # "primary") =>
                IF VisionTriggered THEN pc = "vision" ELSE pc = "start"]_vars
    /\ []DispatchInTaskOrder

C22_Witness ==
    /\ pc = "done"
    /\ path = "batch"
    /\ visionResponse # None
    /\ candidates # {}
    /\ \E f \in DOMAIN specialistMapping : specialistMapping[f].value = "s"
    /\ \E f \in DOMAIN merged : merged[f].value = "s"

\* the specialist stage left nothing: the run ends completed on the
\* upstream mapping
C23_EmptySpecialistKeepsUpstream ==
    [][(pc = "merge" /\ candidates # {} /\ DOMAIN specialistMapping = {}) =>
          /\ docStatus' = "completed"
          /\ \A f \in DOMAIN augmented :
                /\ merged'[f].value = augmented[f].value
                /\ merged'[f].confidence = augmented[f].confidence]_vars

\* C23: a failure of the specialist stage (prompt construction, backend
\* call or response parsing) never fails the document and is not retried:
\* the stage is left once, for the merge, the document still in processing,
\* and the run then ends completed with the upstream mapping as its result
C23_SpecialistFailureDegrades ==
    /\ [][pc = "specialist" =>
             /\ pc' = "merge"
             /\ docStatus' = docStatus]_vars
    /\ C23_EmptySpecialistKeepsUpstream

\* how often a class occurs among the values, and the prevalence rule of
\* date and number over them
ClassCount(values, k) ==
    Cardinality({i \in 1..Len(values) : ValueClass(values[i]) = k})

TopCount(values) ==
    Max(ClassCount(values, "date"),
        Max(ClassCount(values, "number"), ClassCount(values, "text")))

Prevalent(values) ==
    LET d == ClassCount(values, "date")
        n == ClassCount(values, "number")
    IN  IF d = 0 /\ n = 0 THEN {"text"}
        ELSE IF d > n THEN {"date"}
        ELSE IF n > d THEN {"number"} ELSE {"date", "number"}

\* C24: over n values the most frequent class is returned as the majority
\* only if its count is at least half of n (count * 2 >= n), odd n
\* included: when no class reaches half, the inferred type is the one the
\* prevalence rule gives
C24_MajorityNeedsHalf ==
    (fnOut # None /\ fnIn.fn = "infer_hint"
       /\ TopCount(fnIn.values) * 2 < Len(fnIn.values)) =>
       fnOut.type_hint \in Prevalent(fnIn.values)

TopTied(values) ==
    Cardinality({k \in {"date", "number", "text"} :
                    ClassCount(values, k) = TopCount(values)}) > 1

\* C25: when the top count is tied, or no class reaches half of the values,
\* the inferred type is the one of date and number that occurs more often
\* (when either occurs) and text only when neither occurs; and the values
\* in any other order give the same type
C25_TieUsesPrevalence ==
    (fnOut # None /\ fnIn.fn = "infer_hint"
       /\ (TopTied(fnIn.values)
           \/ TopCount(fnIn.values) * 2 < Len(fnIn.values))) =>
       /\ fnOut.type_hint \in Prevalent(fnIn.values)
       /\ \A o \in FinishOrders(Len(fnIn.values)) :
             InferType([i \in 1..Len(fnIn.values) |-> fnIn.values[o[i]]])
                = fnOut.type_hint

\* C30: whenever the inferred type is number, the inferred regex finds a
\* match in every sample value classified as a number, whatever the mix of
\* integer and fractional digit counts
C30_NumberPatternMatchesSamples ==
    (fnOut # None /\ fnIn.fn = "infer_hint" /\ fnOut.type_hint = "number") =>
       \A i \in 1..Len(fnIn.values) :
          ValueClass(fnIn.values[i]) = "number" =>
             NumberPatternFinds(fnOut.regex_pattern, fnIn.values[i])

\* C26: a field whose pattern matches the text several times gets one
\* evidence entry, and its matches list holds each distinct matched text
\* once, in the order of first occurrence
C26_MatchesDeduplicated ==
    (fnOut # None /\ fnIn.fn = "pre_detect"
       /\ Len(fnIn.found) = 1 /\ Len(fnIn.found[1].matches) > 1) =>
       /\ "matches" \in DOMAIN fnOut.evidence
       /\ fnOut.evidence.matches = Distinct(fnIn.found[1].matches)

\* C27: every process_document_task run ends with its document completed
\* or failed, never pending or processing; so once no task of the batch is
\* queued or running, a status poll of the job leaves it completed
C27_TasksEndTerminal ==
    batch # None =>
       /\ \A d \in Docs :
             (/\ batch.docs[d].batch_job_id # 0
              /\ \A t \in batch.queued \cup batch.running : t[2] # d)
             => batch.docs[d].status \in {"completed", "failed"}
       /\ (batch.polled # 0 /\ batch.queued \cup batch.running = {})
             => batch.jobs[batch.polled].status = "completed"

\* C28: when start requests for the same template interleave, a document
\* is linked to and worked on by one job only, at most one ExtractedData
\* row is written for it, and every job's total_files is the number of
\* documents linked to it
C28_OneJobPerDocument ==
    batch # None =>
       /\ \A d \in Docs :
             /\ batch.docs[d].extracted <= 1
             /\ Cardinality({t[1] : t \in
                   {u \in batch.queued \cup batch.running : u[2] = d}}) <= 1
       /\ \A j \in 1..Len(batch.jobs) :
             batch.jobs[j].total_files = Cardinality(LinkedTo(batch.docs, j))

\* C29: in the analyze response every suggested_mapping entry, the ones
\* synthesized for template fields missing from the merged mapping
\* included, has the status of its confidence: high only from 0.8 on,
\* medium only from 0.5 up to 0.8, low below
C29_StatusFollowsConfidence ==
    (pc = "done" /\ path = "analyze") =>
       \A f \in DOMAIN result :
          /\ result[f].status = "high" <=> result[f].confidence >= 80
          /\ result[f].status = "medium" <=>
                (result[f].confidence >= 50 /\ result[f].confidence < 80)
          /\ result[f].status = "low" <=> result[f].confidence < 50

====
